---- MODULE Spec2Model ----
(***************************************************************************)
(* Retrieval core of pool_ai_knowledge: the KnowledgeBase object of        *)
(* backend/knowledge_base_agent.py (Document Store self.posts, Vector      *)
(* Index self.vector_store), the admin write path of backend/admin_api.py  *)
(* that drives it, and the search tool search_knowledge_base.              *)
(*                                                                         *)
(* Abstractions.                                                           *)
(*  - The corpus has two post ids.                                         *)
(*  - The text of a post (title and content) is identified with its id,    *)
(*    so a post is the pair (id, language); tags and timestamps are not    *)
(*    modelled.                                                            *)
(*  - The embedding provider is a black box.  A query is represented by    *)
(*    the distance its embedding has to the embedding of every text: a     *)
(*    function from ids to distances.  Two index records of the same text  *)
(*    therefore always have the same distance to a query.                  *)
(*  - The FAISS index is the sequence of its records in insertion order;   *)
(*    a search returns the k nearest records by ascending distance, ties   *)
(*    in insertion order.                                                  *)
(*  - The posts table is a set of rows keyed by id; the SELECT of          *)
(*    load_posts returns the active rows in primary-key order.             *)
(*  - self.posts is a dict: a set of posts with pairwise distinct ids.     *)
(*    Its iteration order matters only to _generate_all_embeddings, which  *)
(*    always runs right after load_posts, so it is the load order.         *)
(*  - Spec takes every operation as one step.  SpecHandlers and SpecConc   *)
(*    split the admin handlers, and SpecConc the search, into the steps    *)
(*    between which the other thread can run.  SpecSnippet is the snippet  *)
(*    extractor alone, on contents given as sequences of characters.       *)
(***************************************************************************)
EXTENDS Integers, Sequences, FiniteSets, TLC

----------------------------------------------------------------------------
(* Bounds of the model *)

MaxDist == 1
MaxTopK == 2
MaxIndex == 2
MaxContentLen == 210
MaxScoreDist == 10

(* Values of the program *)

IdOrder == <<"post_001", "post_002">>
Ids == {IdOrder[i] : i \in 1..Len(IdOrder)}
Langs == {"en", "zh-CN"}
DefaultLang == "zh-CN"
SampleLang == "en"
NoLang == "None"
OverFetch == 3
MaxLength == 200

Queries == [Ids -> 0..MaxDist]
TopKs == 1..MaxTopK
LangFilters == Langs \cup {NoLang}

VARIABLES db, posts, vector_store, last, snippet, writers, reader, scoring, sessions

vars == <<db, posts, vector_store, last, snippet, writers, reader, scoring, sessions>>

\* what the operations on the knowledge base leave alone
aside == <<snippet, writers, reader, scoring>>

----------------------------------------------------------------------------
(* Values *)

DbRows == [id : Ids, language : Langs, is_active : BOOLEAN]
Post(id, language) == [id |-> id, language |-> language]
Document(post) == [post_id |-> post.id, language |-> post.language]

NoStore == [is_none |-> TRUE, docs |-> <<>>]
FAISS(docs) == [is_none |-> FALSE, docs |-> docs]

----------------------------------------------------------------------------
(* Document Store: the dict self.posts *)

HasKey(ps, id) == \E p \in ps : p.id = id
GetPost(ps, id) == CHOOSE p \in ps : p.id = id
Keys(ps) == {p.id : p \in ps}

\* mutant: the post is added next to the entry that exists
DictSetAdd(ps, post) == ps \cup {post}

DictSet(ps, post) == {p \in ps : p.id # post.id} \cup {post}

DbHas(rows, id) == \E r \in rows : r.id = id
DbRow(rows, id) == CHOOSE r \in rows : r.id = id

\* load_posts: the active rows, or nothing when the database cannot be read
load_posts(rows, ok) ==
    IF ok THEN {Post(r.id, r.language) : r \in {x \in rows : x.is_active}}
    ELSE {}

\* iteration order of self.posts.items() after load_posts
Items(ps) ==
    LET ids == SelectSeq(IdOrder, LAMBDA id : HasKey(ps, id))
    IN [i \in 1..Len(ids) |-> GetPost(ps, ids[i])]

----------------------------------------------------------------------------
(* Vector Index *)

\* candidates in ascending distance; equal distances keep insertion order
InsertByScore(sorted, c) ==
    LET k == Cardinality({j \in 1..Len(sorted) : sorted[j].score <= c.score})
    IN SubSeq(sorted, 1, k) \o <<c>> \o SubSeq(sorted, k + 1, Len(sorted))

RECURSIVE SortByScore(_, _, _, _)
SortByScore(docs, q, i, sorted) ==
    IF i > Len(docs) THEN sorted
    ELSE SortByScore(docs, q, i + 1,
                     InsertByScore(sorted, [doc |-> docs[i], score |-> q[docs[i].post_id]]))

\* mutant: the search returns one candidate less than asked
similarity_search_with_score_short(docs, q, k) ==
    LET all == SortByScore(docs, q, 1, <<>>)
    IN IF k - 1 < Len(all) THEN SubSeq(all, 1, k - 1) ELSE all

similarity_search_with_score(docs, q, k) ==
    LET all == SortByScore(docs, q, 1, <<>>)
    IN IF k < Len(all) THEN SubSeq(all, 1, k) ELSE all

\* _generate_all_embeddings: how the call ends
GenerateOutcome(ps, ok) ==
    IF ps = {} THEN "skipped"
    ELSE IF ok THEN "built" ELSE "failed"

\* mutant: a build adds its records to the index that exists
_generate_all_embeddings_appending(vs, ps, ok) ==
    IF GenerateOutcome(ps, ok) = "built"
    THEN LET items == Items(ps)
         IN FAISS(vs.docs \o [i \in 1..Len(items) |-> Document(items[i])])
    ELSE vs

\* mutant: the index is filled record by record, so a failed build leaves
\* the records embedded before the failure
_generate_all_embeddings_partial(vs, ps, ok) ==
    LET items == Items(ps)
    IN IF GenerateOutcome(ps, ok) = "built"
       THEN FAISS([i \in 1..Len(items) |-> Document(items[i])])
       ELSE IF GenerateOutcome(ps, ok) = "failed"
       THEN FAISS(<<Document(items[1])>>)
       ELSE vs

\* _generate_all_embeddings: the store it leaves
_generate_all_embeddings(vs, ps, ok) ==
    IF GenerateOutcome(ps, ok) = "built"
    THEN LET items == Items(ps)
         IN FAISS([i \in 1..Len(items) |-> Document(items[i])])
    ELSE vs

_add_post_to_vector_store(vs, post, ok) ==
    IF vs.is_none THEN vs
    ELSE IF ok THEN FAISS(Append(vs.docs, Document(post)))
    ELSE vs

\* the guard of add_post before it calls _add_post_to_vector_store
AddsToIndex(vs) == ~vs.is_none

add_post(vs, post, ok) ==
    IF AddsToIndex(vs) THEN _add_post_to_vector_store(vs, post, ok) ELSE vs

----------------------------------------------------------------------------
(* Retrieval Engine *)

\* mutant: no over-fetch when a language filter is set
fetch_k_exact(top_k, language) == top_k

fetch_k(top_k, language) == IF language # NoLang THEN top_k * OverFetch ELSE top_k

\* mutant: the language test is inverted
LanguageRejectsInverted(doc, language) == language # NoLang /\ doc.language = language

LanguageRejects(doc, language) == language # NoLang /\ doc.language # language

\* mutant: the join against self.posts is not checked
PostExistsUnchecked(ps, post_id) == TRUE

PostExists(ps, post_id) == HasKey(ps, post_id)

\* mutant: the score falls linearly with the distance
similarity_score_linear(score) == [num |-> 1 - score, den |-> 1]

\* mutant: the distance is returned as the score, not converted
similarity_score_raw(score) == [num |-> score, den |-> 1]

\* the relevance score 1.0 / (1.0 + score) as the fraction num/den
similarity_score(score) ==
    IF score > 0 THEN [num |-> 1, den |-> 1 + score] ELSE [num |-> 1, den |-> 1]

\* mutant: the loop stops one result late
ReachedTopKLate(results, top_k) == Len(results) > top_k

ReachedTopK(results, top_k) == Len(results) >= top_k

RECURSIVE SearchLoop(_, _, _, _, _, _)
SearchLoop(cands, i, results, ps, top_k, language) ==
    IF i > Len(cands) THEN results
    ELSE IF LanguageRejects(cands[i].doc, language)
         THEN SearchLoop(cands, i + 1, results, ps, top_k, language)
    ELSE IF PostExists(ps, cands[i].doc.post_id)
         THEN LET r == Append(results,
                          [post_id |-> cands[i].doc.post_id,
                           relevance_score |-> similarity_score(cands[i].score)])
              IN IF ReachedTopK(r, top_k) THEN r
                 ELSE SearchLoop(cands, i + 1, r, ps, top_k, language)
    ELSE SearchLoop(cands, i + 1, results, ps, top_k, language)

_search_with_rag(vs, ps, q, top_k, language) ==
    SearchLoop(similarity_search_with_score(vs.docs, q, fetch_k(top_k, language)),
               1, <<>>, ps, top_k, language)

\* A text is the sequence of its characters.  The character 0 stands for '.',
\* every other character for a character that is not '.'.
Ellipsis == <<0, 0, 0>>

\* mutant: a content of exactly max_length characters is truncated too
_extract_relevant_snippet_semantic_geq(content, max_length) ==
    IF Len(content) >= max_length
    THEN SubSeq(content, 1, max_length) \o Ellipsis
    ELSE content

_extract_relevant_snippet_semantic(content, max_length) ==
    IF Len(content) > max_length
    THEN SubSeq(content, 1, max_length) \o Ellipsis
    ELSE content

\* mutant: search_posts does not check that the store exists
StoreReadyUnchecked(vs) == TRUE

StoreReady(vs) == ~vs.is_none

\* mutant: a failure of the provider is swallowed and the search goes on
SearchRaisesStoreOnly(vs, embed_ok) == ~StoreReady(vs)

\* search_posts raises when the store is not initialized or when the
\* provider cannot embed the query
SearchRaises(vs, embed_ok) == ~StoreReady(vs) \/ ~embed_ok

\* the list search_posts returns when it does not raise
search_posts(vs, ps, q, top_k, language) == _search_with_rag(vs, ps, q, top_k, language)

\* search_knowledge_base: the status of its answer ("error": it raised)
search_knowledge_base(vs, ps, q, top_k, language, embed_ok) ==
    IF SearchRaises(vs, embed_ok) THEN "error"
    ELSE IF Len(search_posts(vs, ps, q, top_k, language)) = 0 THEN "not_found"
    ELSE "found"

\* mutant: results_count reports the requested top_k
SearchResponseCountsTopK(vs, ps, q, top_k, language) ==
    LET results == search_posts(vs, ps, q, top_k, language)
    IN IF Len(results) = 0
       THEN [status |-> "not_found", results |-> <<>>]
       ELSE [status |-> "found", results_count |-> top_k,
             results |-> [i \in 1..Len(results) |-> results[i]]]

\* search_knowledge_base: the dict it returns when search_posts does not raise
SearchResponse(vs, ps, q, top_k, language) ==
    LET results == search_posts(vs, ps, q, top_k, language)
    IN IF Len(results) = 0
       THEN [status |-> "not_found", results |-> <<>>]
       ELSE [status |-> "found", results_count |-> Len(results),
             results |-> [i \in 1..Len(results) |-> results[i]]]

----------------------------------------------------------------------------
(* Chat sessions: the session service of main.py.  A session is its id and *)
(* whether it holds history from before the latest delete_post.            *)

\* agent names as a chat request may spell them
AgentNames == {"knowledge", "Knowledge", "KNOWLEDGE", "calculator", "Calculator", "nosuch"}

\* str.lower on these names
lower(name) ==
    CASE name \in {"knowledge", "Knowledge", "KNOWLEDGE"} -> "knowledge"
      [] name \in {"calculator", "Calculator"} -> "calculator"
      [] OTHER -> name

\* the keys of AGENT_REGISTRY that the model keeps
AGENT_REGISTRY == {"knowledge", "calculator"}
NoAgent == "None"

get_agent(agent_name) ==
    IF lower(agent_name) \in AGENT_REGISTRY THEN lower(agent_name) ELSE NoAgent

\* chat_with_agent: the session id is built from the name as sent
SessionId(agent_name) == "api_" \o agent_name

HasSession(ss, session_id) == \E x \in ss : x.session_id = session_id

\* create_session_sync, then the run that appends its events.  The library
\* either replaces a session that exists or raises, and then the handler reads
\* the session that exists.
create_session_sync(ss, session_id, overwrites) ==
    IF HasSession(ss, session_id) /\ ~overwrites THEN ss
    ELSE {x \in ss : x.session_id # session_id} \cup
         {[session_id |-> session_id, old |-> FALSE]}

delete_session_sync(ss, session_id) == {x \in ss : x.session_id # session_id}

\* delete_post, lines 517-526: the session "api_knowledge" is deleted; what
\* the other sessions hold is from before this deletion
ClearKnowledgeSession(ss) ==
    {[x EXCEPT !.old = TRUE] : x \in delete_session_sync(ss, "api_knowledge")}

----------------------------------------------------------------------------
(* Record of the last completed operation *)

\* provider_failed: the operation called the embedding provider and the call
\* raised
Idle == [op |-> "init", post_id |-> "", status |-> "", rebuild |-> "none",
         provider_failed |-> FALSE]

\* no search in progress in a worker thread
NoReader == [pc |-> "idle", q |-> [id \in Ids |-> 0], top_k |-> 0, language |-> NoLang,
             cands |-> <<>>, expected |-> {}]

\* no distance converted yet
NoScoring == [d1 |-> 0, d2 |-> 0, s1 |-> [num |-> 0, den |-> 1],
              s2 |-> [num |-> 0, den |-> 1], done |-> FALSE]

\* the snippet extractor at rest
NoSnippet == [content |-> <<>>, matched_content |-> <<>>, extracted |-> FALSE]

----------------------------------------------------------------------------
(* State after import of knowledge_base_agent *)

SamplePosts == {Post(id, SampleLang) : id \in Ids}

Init ==
    /\ db \in SUBSET DbRows
    /\ \A r1, r2 \in db : r1.id = r2.id => r1 = r2
    /\ \E load_ok \in BOOLEAN :
          LET ps == load_posts(db, load_ok)
          IN IF ps = {}
             THEN /\ posts = SamplePosts
                  /\ vector_store = NoStore
             ELSE /\ posts = ps
                  /\ vector_store = _generate_all_embeddings(NoStore, ps, TRUE)
    /\ last = Idle
    /\ snippet = NoSnippet
    /\ writers = {}
    /\ reader = NoReader
    /\ scoring = NoScoring
    /\ sessions = {}

----------------------------------------------------------------------------
(* Operations *)

IndexedIds(vs) == {vs.docs[i].post_id : i \in 1..Len(vs.docs)}

\* admin_api.create_post: a fresh uuid, the row inserted, then add_post
CreatePost(id, language, ok) ==
    /\ ~DbHas(db, id)
    /\ ~HasKey(posts, id)
    /\ id \notin IndexedIds(vector_store)
    /\ Len(vector_store.docs) < MaxIndex
    /\ db' = db \cup {[id |-> id, language |-> language, is_active |-> TRUE]}
    /\ posts' = DictSet(posts, Post(id, language))
    /\ vector_store' = add_post(vector_store, Post(id, language), ok)
    /\ last' = [Idle EXCEPT !.op = "add_post", !.post_id = id,
                            !.provider_failed = AddsToIndex(vector_store) /\ ~ok]
    /\ UNCHANGED <<aside, sessions>>

\* add_post_to_knowledge_base: caller-supplied id, default language, no row
AddPostToKnowledgeBase(id, ok) ==
    /\ Len(vector_store.docs) < MaxIndex
    /\ posts' = DictSet(posts, Post(id, DefaultLang))
    /\ vector_store' = add_post(vector_store, Post(id, DefaultLang), ok)
    /\ last' = [Idle EXCEPT !.op = "add_post", !.post_id = id,
                            !.provider_failed = AddsToIndex(vector_store) /\ ~ok]
    /\ UNCHANGED <<db, aside, sessions>>

\* the RAG update shared by update_post and delete_post
Reload(rows, op, id, load_ok, ok) ==
    LET ps == load_posts(rows, load_ok)
    IN /\ posts' = ps
       /\ vector_store' = _generate_all_embeddings(vector_store, ps, ok)
       /\ last' = [Idle EXCEPT !.op = op, !.post_id = id,
                               !.rebuild = GenerateOutcome(ps, ok)]
       /\ UNCHANGED aside

UpdatePost(id, language, is_active, load_ok, ok) ==
    /\ DbHas(db, id)
    /\ LET rows == (db \ {DbRow(db, id)}) \cup
                   {[id |-> id, language |-> language, is_active |-> is_active]}
       IN /\ db' = rows
          /\ Reload(rows, "update_post", id, load_ok, ok)
          /\ UNCHANGED sessions

\* mutant: a reload that fails keeps the posts it had
DeletePostKeepsPosts(id, load_ok, ok) ==
    /\ DbHas(db, id)
    /\ LET rows == db \ {DbRow(db, id)}
           ps == IF load_ok THEN load_posts(rows, TRUE) ELSE posts
       IN /\ db' = rows
          /\ posts' = ps
          /\ vector_store' = _generate_all_embeddings(vector_store, ps, ok)
          /\ last' = [Idle EXCEPT !.op = "delete_post", !.post_id = id,
                                  !.rebuild = GenerateOutcome(ps, ok)]
          /\ sessions' = ClearKnowledgeSession(sessions)
          /\ UNCHANGED aside

DeletePost(id, load_ok, ok) ==
    /\ DbHas(db, id)
    /\ LET rows == db \ {DbRow(db, id)}
       IN /\ db' = rows
          /\ Reload(rows, "delete_post", id, load_ok, ok)
          /\ sessions' = ClearKnowledgeSession(sessions)

\* mutant: a search that raises drops the index
SearchKnowledgeBaseDropsIndex(q, top_k, language, ok) ==
    /\ last' = [Idle EXCEPT !.op = "search",
                  !.status = search_knowledge_base(vector_store, posts, q, top_k, language, ok),
                  !.provider_failed = StoreReady(vector_store) /\ ~ok]
    /\ vector_store' = IF SearchRaises(vector_store, ok) THEN NoStore ELSE vector_store
    /\ UNCHANGED <<db, posts, aside, sessions>>

SearchKnowledgeBase(q, top_k, language, ok) ==
    /\ last' = [Idle EXCEPT !.op = "search",
                  !.status = search_knowledge_base(vector_store, posts, q, top_k, language, ok),
                  !.provider_failed = StoreReady(vector_store) /\ ~ok]
    /\ UNCHANGED <<db, posts, vector_store, aside, sessions>>

Next ==
    \/ \E id \in Ids, l \in Langs, ok \in BOOLEAN : CreatePost(id, l, ok)
    \/ \E id \in Ids, ok \in BOOLEAN : AddPostToKnowledgeBase(id, ok)
    \/ \E id \in Ids, l \in Langs, a \in BOOLEAN, lo \in BOOLEAN, ok \in BOOLEAN :
          UpdatePost(id, l, a, lo, ok)
    \/ \E id \in Ids, lo \in BOOLEAN, ok \in BOOLEAN : DeletePost(id, lo, ok)
    \/ \E q \in Queries, k \in TopKs, l \in LangFilters :
          SearchKnowledgeBase(q, k, l, TRUE)
    \/ \E q \in Queries : SearchKnowledgeBase(q, 1, NoLang, FALSE)

Spec == Init /\ [][Next]_vars

----------------------------------------------------------------------------
(* The snippet extractor on its own: one content, one extraction *)

\* a content of n characters: its characters all different, or all '.'
Text(n, dots) == [i \in 1..n |-> IF dots THEN 0 ELSE i]
Contents == {Text(n, dots) : n \in 0..MaxContentLen, dots \in BOOLEAN}

InitSnippet ==
    /\ db = {}
    /\ posts = {}
    /\ vector_store = NoStore
    /\ last = Idle
    /\ writers = {}
    /\ reader = NoReader
    /\ scoring = NoScoring
    /\ sessions = {}
    /\ \E c \in Contents : snippet = [NoSnippet EXCEPT !.content = c]

\* the call of line 271: max_length = 200
ExtractSnippet ==
    /\ ~snippet.extracted
    /\ snippet' = [snippet EXCEPT
                     !.matched_content = _extract_relevant_snippet_semantic(snippet.content, MaxLength),
                     !.extracted = TRUE]
    /\ UNCHANGED <<db, posts, vector_store, last, writers, reader, scoring, sessions>>

NextSnippet == ExtractSnippet

SpecSnippet == InitSnippet /\ [][NextSnippet]_vars

----------------------------------------------------------------------------
(* The score conversion on its own: two distances, one conversion of each *)

InitScore ==
    /\ db = {}
    /\ posts = {}
    /\ vector_store = NoStore
    /\ last = Idle
    /\ snippet = NoSnippet
    /\ writers = {}
    /\ reader = NoReader
    /\ sessions = {}
    /\ \E d1 \in 0..MaxScoreDist, d2 \in 0..MaxScoreDist :
          scoring = [NoScoring EXCEPT !.d1 = d1, !.d2 = d2]

\* line 268 applied to both distances
ConvertScores ==
    /\ ~scoring.done
    /\ scoring' = [scoring EXCEPT !.s1 = similarity_score(scoring.d1),
                                   !.s2 = similarity_score(scoring.d2),
                                   !.done = TRUE]
    /\ UNCHANGED <<db, posts, vector_store, last, snippet, writers, reader, sessions>>

NextScore == ConvertScores

SpecScore == InitScore /\ [][NextScore]_vars

----------------------------------------------------------------------------
(* Chat requests next to the admin handlers that create and delete posts *)

\* chat_with_agent for an agent that exists: its session is created or found
\* and the run adds its events to it
Chat(agent_name, overwrites) ==
    /\ get_agent(agent_name) # NoAgent
    /\ sessions' = create_session_sync(sessions, SessionId(agent_name), overwrites)
    /\ UNCHANGED <<db, posts, vector_store, last, aside>>

NextSession ==
    \/ \E n \in AgentNames, o \in BOOLEAN : Chat(n, o)
    \/ \E id \in Ids, l \in Langs : CreatePost(id, l, TRUE)
    \/ \E id \in Ids, lo \in BOOLEAN, ok \in BOOLEAN : DeletePost(id, lo, ok)

SpecSession == Init /\ [][NextSession]_vars

----------------------------------------------------------------------------
(* The server under concurrent requests.                                   *)
(*                                                                         *)
(* The admin handlers create_post, update_post and delete_post are         *)
(* coroutines of the one event loop; the search tool runs in a worker      *)
(* thread started by chat_with_agent (asyncio.to_thread), so its steps     *)
(* interleave with the steps of a handler.  writers is the set of handlers *)
(* that have started and not returned; reader is the search in progress.   *)
(* A handler record holds its position pc ("loading": in the loop of       *)
(* load_posts, "rebuild": in _generate_all_embeddings, "append": in        *)
(* _add_post_to_vector_store), the posts it has still to write (pending)   *)
(* and self.posts as it was when the handler started (before).             *)
(* reader.expected is the set of result lists the search would return on   *)
(* a version of the knowledge base between two handlers.  The record of    *)
(* the last completed operation and the chat sessions are not kept here.   *)

\* mutant: the handlers run in a thread pool instead of the event loop
EventLoopFreeAlways(ws) == TRUE

\* a coroutine without await runs to its end before the loop starts another
EventLoopFree(ws) == ws = {}

\* the versions of the knowledge base a search starting now may rely on
StableVersions ==
    IF writers = {} THEN {[vs |-> vector_store, ps |-> posts]}
    ELSE {[vs |-> vector_store, ps |-> w.before] : w \in writers}

\* a handler returns: a search in progress may rely on the new version too
ReaderSees(vs, ps) ==
    IF reader.pc = "fetched"
    THEN [reader EXCEPT !.expected = @ \cup
             {search_posts(vs, ps, reader.q, reader.top_k, reader.language)}]
    ELSE reader

\* create_post up to the entry of _add_post_to_vector_store
BeginCreate(id, language) ==
    /\ EventLoopFree(writers)
    /\ ~DbHas(db, id)
    /\ ~HasKey(posts, id)
    /\ id \notin IndexedIds(vector_store)
    /\ Len(vector_store.docs) < MaxIndex
    /\ db' = db \cup {[id |-> id, language |-> language, is_active |-> TRUE]}
    /\ posts' = DictSet(posts, Post(id, language))
    /\ writers' = writers \cup {[op |-> "add_post", post_id |-> id, pc |-> "append",
                                  pending |-> <<Post(id, language)>>, before |-> posts]}
    /\ UNCHANGED <<vector_store, last, snippet, scoring, sessions, reader>>

\* create_post from the append to the index to its return
FinishCreate(w, ok) ==
    /\ w.pc = "append"
    /\ vector_store' = add_post(vector_store, Head(w.pending), ok)
    /\ writers' = writers \ {w}
    /\ reader' = ReaderSees(vector_store', posts)
    /\ UNCHANGED <<db, posts, last, snippet, scoring, sessions>>

\* update_post and delete_post up to line 146 of load_posts and its SELECT
BeginReload(rows, op, id, load_ok) ==
    LET items == Items(load_posts(rows, load_ok))
    IN /\ EventLoopFree(writers)
       /\ db' = rows
       /\ posts' = {}
       /\ writers' = writers \cup
             {[op |-> op, post_id |-> id,
               pc |-> IF Len(items) = 0 THEN "rebuild" ELSE "loading",
               pending |-> items, before |-> posts]}
       /\ UNCHANGED <<vector_store, last, snippet, scoring, sessions, reader>>

BeginUpdate(id, language, is_active, load_ok) ==
    /\ DbHas(db, id)
    /\ BeginReload((db \ {DbRow(db, id)}) \cup
                      {[id |-> id, language |-> language, is_active |-> is_active]},
                   "update_post", id, load_ok)

BeginDelete(id, load_ok) ==
    /\ DbHas(db, id)
    /\ BeginReload(db \ {DbRow(db, id)}, "delete_post", id, load_ok)

\* one turn of the loop of load_posts (line 164)
LoadStep(w) ==
    /\ w.pc = "loading"
    /\ posts' = DictSet(posts, Head(w.pending))
    /\ writers' = (writers \ {w}) \cup
          {[w EXCEPT !.pending = Tail(@),
                     !.pc = IF Len(w.pending) = 1 THEN "rebuild" ELSE "loading"]}
    /\ UNCHANGED <<db, vector_store, last, snippet, scoring, sessions, reader>>

\* _generate_all_embeddings and the return of the handler
FinishRebuild(w, ok) ==
    /\ w.pc = "rebuild"
    /\ vector_store' = _generate_all_embeddings(vector_store, posts, ok)
    /\ writers' = writers \ {w}
    /\ reader' = ReaderSees(vector_store', posts)
    /\ UNCHANGED <<db, posts, last, snippet, scoring, sessions>>

\* _search_with_rag up to line 254: the candidates are read from the index
ReaderFetch(q, top_k, language) ==
    /\ reader.pc = "idle"
    /\ StoreReady(vector_store)
    /\ reader' = [pc |-> "fetched", q |-> q, top_k |-> top_k, language |-> language,
                  cands |-> similarity_search_with_score(vector_store.docs, q,
                                                         fetch_k(top_k, language)),
                  expected |-> {search_posts(v.vs, v.ps, q, top_k, language) :
                                  v \in StableVersions}]
    /\ UNCHANGED <<db, posts, vector_store, last, snippet, scoring, sessions, writers>>

\* _search_with_rag from line 256: the list the loop builds when it joins the
\* candidates with self.posts as it is now
JoinResults ==
    SearchLoop(reader.cands, 1, <<>>, posts, reader.top_k, reader.language)

\* the loop runs and the search returns
ReaderJoin ==
    /\ reader.pc = "fetched"
    /\ reader' = NoReader
    /\ UNCHANGED <<db, posts, vector_store, last, snippet, scoring, sessions, writers>>

\* the handlers alone
NextHandlers ==
    \/ \E id \in Ids, l \in Langs : BeginCreate(id, l)
    \/ \E w \in writers, ok \in BOOLEAN : FinishCreate(w, ok)
    \/ \E id \in Ids, l \in Langs, a \in BOOLEAN, lo \in BOOLEAN : BeginUpdate(id, l, a, lo)
    \/ \E id \in Ids, lo \in BOOLEAN : BeginDelete(id, lo)
    \/ \E w \in writers : LoadStep(w)
    \/ \E w \in writers, ok \in BOOLEAN : FinishRebuild(w, ok)

SpecHandlers == Init /\ [][NextHandlers]_vars

\* The handlers and a search in a worker thread, when nothing fails: every
\* row is active, the database can be read and the provider answers.
InitConc ==
    /\ Init
    /\ \A r \in db : r.is_active
    /\ posts = IF db = {} THEN SamplePosts ELSE load_posts(db, TRUE)

NextConc ==
    \/ \E id \in Ids, l \in Langs : BeginCreate(id, l)
    \/ \E w \in writers : FinishCreate(w, TRUE)
    \/ \E id \in Ids, l \in Langs : BeginUpdate(id, l, TRUE, TRUE)
    \/ \E id \in Ids : BeginDelete(id, TRUE)
    \/ \E w \in writers : LoadStep(w)
    \/ \E w \in writers : FinishRebuild(w, TRUE)
    \/ \E q \in Queries, k \in TopKs, l \in LangFilters : ReaderFetch(q, k, l)
    \/ ReaderJoin

SpecConc == InitConc /\ [][NextConc]_vars

----------------------------------------------------------------------------
(* Vocabulary of the claims *)

Built == ~vector_store.is_none
Docs == vector_store.docs
Results(q, top_k, language) == search_posts(vector_store, posts, q, top_k, language)
Status(q, top_k, language, ok) ==
    search_knowledge_base(vector_store, posts, q, top_k, language, ok)
ResultIds(r) == {r[i].post_id : i \in 1..Len(r)}

\* a >= b for scores held as fractions with positive denominators
ScoreGeq(a, b) == a.num * b.den >= b.num * a.den

\* ids with an index record but no post in the store
StaleIds == IndexedIds(vector_store) \ Keys(posts)
\* ids with an index record and a post in the store
LiveIndexedIds == IndexedIds(vector_store) \cap Keys(posts)

\* Vector Index and Document Store agree
IndexAgreesWithStore ==
    /\ \A i \in 1..Len(Docs) :
          /\ HasKey(posts, Docs[i].post_id)
          /\ GetPost(posts, Docs[i].post_id).language = Docs[i].language
    /\ \A p \in posts : p.id \in IndexedIds(vector_store)

\* index positions a search with this filter would accept
Accepted(language) ==
    {i \in 1..Len(Docs) : ~LanguageRejects(Docs[i], language)
                          /\ PostExists(posts, Docs[i].post_id)}

\* ids of language L among the first top_k * 3 candidates of the unfiltered order
RankedOfLanguage(q, top_k, language) ==
    LET cands == similarity_search_with_score(Docs, q, top_k * OverFetch)
    IN {cands[i].doc.post_id : i \in {j \in 1..Len(cands) : cands[j].doc.language = language}}

----------------------------------------------------------------------------
(* Claims *)

\* C1: with a built index, for every query, every top_k >= 1 and every
\* language filter (or none), search_posts returns at most top_k results.
C1_AtMostTopK ==
    Built => \A q \in Queries, k \in TopKs, l \in LangFilters :
                Len(Results(q, k, l)) <= k

\* C1 witness: after a search that found something, a filtered query fills
\* its top_k although more index records than top_k pass the filter.
C1_Witness ==
    /\ last.op = "search" /\ last.status = "found"
    /\ \E q \in Queries, k \in TopKs, l \in Langs :
          /\ Len(Results(q, k, l)) = k
          /\ Cardinality(Accepted(l)) > k

\* C2: every result of a search with language filter L refers to a post
\* whose language in self.posts is L.
C2_LanguageSound ==
    Built => \A q \in Queries, k \in TopKs, l \in Langs :
                \A id \in ResultIds(Results(q, k, l)) :
                    GetPost(posts, id).language = l

\* C3: after add_post returns, the index holds a record for the added post.
C3_AddPostIndexed ==
    last.op = "add_post" => last.post_id \in IndexedIds(vector_store)

\* C4: after update_post or delete_post completes, index and store agree.
C4_AgreeAfterReload ==
    last.op \in {"update_post", "delete_post"} => IndexAgreesWithStore

\* C5: the results of search_posts are in non-increasing relevance_score.
C5_Descending ==
    Built => \A q \in Queries, k \in TopKs, l \in LangFilters :
                LET r == Results(q, k, l)
                IN \A i \in 1..(Len(r) - 1) :
                      ScoreGeq(r[i].relevance_score, r[i + 1].relevance_score)

\* C5 witness: after a search that found something, some query returns two
\* results, the first with a strictly higher score than the second.
C5_Witness ==
    /\ last.op = "search" /\ last.status = "found"
    /\ \E q \in Queries, k \in TopKs, l \in LangFilters :
          LET r == Results(q, k, l)
          IN /\ Len(r) >= 2
             /\ ~ScoreGeq(r[2].relevance_score, r[1].relevance_score)

\* C6: when the index holds a record of a post that is absent from
\* self.posts, a search whose query is embedded does not raise and returns
\* only posts that are in self.posts.
C6_StaleTolerated ==
    (Built /\ StaleIds # {}) =>
        \A q \in Queries, k \in TopKs, l \in LangFilters :
            /\ Status(q, k, l, TRUE) # "error"
            /\ ResultIds(Results(q, k, l)) \subseteq Keys(posts)

\* C6 witness: after a search that found something, the index holds a stale
\* record next to a live one, and for some query the stale record is the
\* nearest candidate while the result is the live post.
C6_Witness ==
    /\ last.op = "search" /\ last.status = "found"
    /\ \E a \in LiveIndexedIds, b \in StaleIds, q \in Queries, k \in TopKs :
          /\ q[b] < q[a]
          /\ ResultIds(Results(q, k, NoLang)) = {a}
          /\ similarity_search_with_score(Docs, q, k)[1].doc.post_id = b

\* C7: whenever the index has no record of a live post, search fails with a
\* not-ready error, and search_knowledge_base does not answer not_found.
C7_EmptyCorpusNotReady ==
    (last.op = "search" /\ LiveIndexedIds = {}) => last.status = "error"

\* C8: on a knowledge base whose index was never built (vector_store is
\* None), search_posts raises for every query and top_k.
C8_NeverBuiltRaises ==
    /\ (last.op = "search" /\ ~Built) => last.status = "error"
    /\ ~Built => \A q \in Queries, k \in TopKs, l \in LangFilters, ok \in BOOLEAN :
                    Status(q, k, l, ok) = "error"

\* C8 witness: a search was answered while the store holds posts and the
\* index was never built.
C8_Witness ==
    last.op = "search" /\ ~Built /\ posts # {} /\ last.status = "error"

\* C9: _generate_all_embeddings called while self.posts is empty fails with
\* an error.
C9_EmptyBuildFails ==
    (last.op \in {"update_post", "delete_post"} /\ posts = {}) =>
        last.rebuild = "failed"

\* C10: if at least top_k documents of language L are among the first
\* top_k * 3 candidates of the unfiltered order, a search filtered by L
\* returns exactly top_k results.
C10_FilterComplete ==
    Built => \A q \in Queries, k \in TopKs, l \in Langs :
                Cardinality(RankedOfLanguage(q, k, l)) >= k
                    => Len(Results(q, k, l)) = k

\* C11: when the provider fails on the query, search_knowledge_base raises: its
\* answer is neither found nor not_found
C11_QueryFailureRaises ==
    (last.op = "search" /\ last.provider_failed)
        => last.status \notin {"found", "not_found"}

\* a search over a built index with live posts whose query could not be embedded
C11_Witness ==
    /\ last.op = "search"
    /\ last.provider_failed
    /\ Built
    /\ LiveIndexedIds # {}
    /\ last.status = "error"

\* C12: no add_post whose embedding call failed returns normally with the post
\* in self.posts and no record of it in the index
C12_AddFailureSurfaced ==
    (last.op = "add_post" /\ last.provider_failed)
        => ~(HasKey(posts, last.post_id) /\ last.post_id \notin IndexedIds(vector_store))

\* a reload (update_post or delete_post) during which the provider fails
RebuildProviderFails ==
    \/ \E id \in Ids, l \in Langs, a \in BOOLEAN, lo \in BOOLEAN :
          UpdatePost(id, l, a, lo, FALSE)
    \/ \E id \in Ids, lo \in BOOLEAN : DeletePost(id, lo, FALSE)

\* C13: when the provider fails during a full rebuild of a non-empty corpus,
\* _generate_all_embeddings raises and the index is the one from before the rebuild
C13_RebuildAtomic ==
    [][(RebuildProviderFails /\ posts' # {})
          => (last'.rebuild = "failed" /\ vector_store' = vector_store)]_vars

\* a failed rebuild has left the index built for the corpus before the reload
C13_Witness ==
    /\ last.op \in {"update_post", "delete_post"}
    /\ last.rebuild = "failed"
    /\ Built
    /\ posts # {}
    /\ IndexedIds(vector_store) # Keys(posts)

Response(q, top_k, language) == SearchResponse(vector_store, posts, q, top_k, language)

\* C17: the answer of search_knowledge_base has status found exactly when its
\* result list is non-empty and not_found exactly when it is empty; a found
\* answer has results_count equal to the length of results
C17_StatusMatchesResults ==
    Built => \A q \in Queries, k \in TopKs, l \in LangFilters :
               LET resp == Response(q, k, l)
               IN /\ resp.status = Status(q, k, l, TRUE)
                  /\ resp.status = "found" <=> Len(resp.results) > 0
                  /\ resp.status = "not_found" <=> Len(resp.results) = 0
                  /\ resp.status = "found" => resp.results_count = Len(resp.results)

\* a search answered not_found while another input finds fewer posts than asked
C17_Witness ==
    /\ last.op = "search"
    /\ last.status = "not_found"
    /\ \E q \in Queries, k \in TopKs, l \in LangFilters :
          /\ Response(q, k, l).status = "found"
          /\ Response(q, k, l).results_count < k

\* the corpus of the end-to-end scenario: p1 in English, p2 in Chinese, one
\* index record for each
p1 == IdOrder[1]
p2 == IdOrder[2]
ScenarioCorpus ==
    /\ posts = {Post(p1, "en"), Post(p2, "zh-CN")}
    /\ Built
    /\ Len(Docs) = Cardinality(Ids)
    /\ IndexedIds(vector_store) = Ids
    /\ IndexAgreesWithStore

\* the query of the scenario is about the text of p1: nearer to p1 than to p2
ScenarioQueries == {q \in Queries : q[p1] < q[p2]}

\* C18: over the scenario corpus a search with top_k = 1 and filter en returns
\* exactly one result, p1, for every query
C18_EnglishFilter ==
    ScenarioCorpus => \A q \in Queries :
                        LET r == Results(q, 1, "en")
                        IN Len(r) = 1 /\ r[1].post_id = p1

\* a found search over the scenario corpus, where a query nearer to p2 than to
\* p1 still gets p1 under the filter en
C18_Witness ==
    /\ ScenarioCorpus
    /\ last.op = "search"
    /\ last.status = "found"
    /\ \E q \in Queries : q[p2] < q[p1] /\ ResultIds(Results(q, 1, "en")) = {p1}

\* C19 as stated: over the scenario corpus the scenario query with top_k = 1 and
\* filter zh-CN yields an empty list and status not_found
C19_ChineseFilterEmpty ==
    ScenarioCorpus => \A q \in ScenarioQueries :
                        /\ Len(Results(q, 1, "zh-CN")) = 0
                        /\ Status(q, 1, "zh-CN", TRUE) = "not_found"

\* C19 amended: over the scenario corpus the scenario query with top_k = 1 and
\* filter zh-CN yields exactly one result, p2, and status found
C19_ChineseFilterFindsP2 ==
    ScenarioCorpus => \A q \in ScenarioQueries :
                        LET r == Results(q, 1, "zh-CN")
                        IN /\ Len(r) = 1
                           /\ r[1].post_id = p2
                           /\ Status(q, 1, "zh-CN", TRUE) = "found"

\* a found search over the scenario corpus whose scenario query gets p2 under
\* the filter zh-CN although p1 is nearer
C19_Witness ==
    /\ ScenarioCorpus
    /\ last.op = "search"
    /\ last.status = "found"
    /\ \E q \in ScenarioQueries :
          /\ similarity_search_with_score(Docs, q, 1)[1].doc.post_id = p1
          /\ ResultIds(Results(q, 1, "zh-CN")) = {p2}

\* C20: a content longer than 200 characters gives its first 200 characters
\* followed by "..." (203 characters); a content of at most 200 characters,
\* 200 included, gives itself
C20_SnippetTruncation ==
    snippet.extracted =>
        LET c == snippet.content
            m == snippet.matched_content
        IN /\ Len(c) > MaxLength =>
                 /\ Len(m) = MaxLength + Len(Ellipsis)
                 /\ SubSeq(m, 1, MaxLength) = SubSeq(c, 1, MaxLength)
                 /\ SubSeq(m, MaxLength + 1, Len(m)) = Ellipsis
           /\ Len(c) <= MaxLength => m = c

\* the snippet of a content of exactly 200 characters
C20_Witness ==
    /\ snippet.extracted
    /\ Len(snippet.content) = MaxLength
    /\ snippet.matched_content = snippet.content

\* the mapping load_posts is building: what it has written and what is pending
LoadTarget(w) == posts \cup {w.pending[i] : i \in 1..Len(w.pending)}

\* C14: while load_posts runs, the self.posts a search in progress is about to
\* read is the whole mapping from before the reload or the whole mapping after it
C14_ReloadAtomic ==
    \A w \in writers :
        (w.pc = "loading" /\ reader.pc = "fetched")
            => posts \in {w.before, LoadTarget(w)}

\* C15: the results of a search that read the index before or during a
\* handler and joins once the handlers have returned are the results of the
\* search on one version of the knowledge base: index and store as they were
\* together before or after a handler
C15_OneVersion ==
    (reader.pc = "fetched" /\ writers = {}) => JoinResults \in reader.expected

\* the handlers that are mutating the index
Mutating == {w \in writers : w.pc \in {"append", "rebuild"}}

\* C16: at most one append or rebuild of the index is in progress
C16_OneMutation == Cardinality(Mutating) <= 1

\* a rebuild in progress while rows remain for other update or delete requests
C16_Witness ==
    /\ \E w \in Mutating : w.pc = "rebuild"
    /\ db # {}

\* C21: for every distance d >= 0 the score is above 0 and at most 1, and a
\* smaller distance never has a smaller score
C21_ScoreBoundMonotone ==
    scoring.done =>
        /\ \A s \in {scoring.s1, scoring.s2} : s.den > 0 /\ 0 < s.num /\ s.num <= s.den
        /\ scoring.d1 <= scoring.d2 => ScoreGeq(scoring.s1, scoring.s2)

\* distance 0 scored 1, a larger distance scored strictly less
C21_Witness ==
    /\ scoring.done
    /\ scoring.d1 = 0
    /\ scoring.d2 > scoring.d1
    /\ scoring.s1.num = scoring.s1.den
    /\ ~ScoreGeq(scoring.s2, scoring.s1)

\* the spellings that get_agent resolves to the knowledge agent
KnowledgeNames == {n \in AgentNames : get_agent(n) = "knowledge"}

\* C30: after delete_post no session that chat_with_agent uses for the
\* knowledge agent holds history from before the deletion
C30_SessionsCleared ==
    last.op = "delete_post" =>
        \A n \in KnowledgeNames, x \in sessions :
            x.session_id = SessionId(n) => ~x.old

\* C22: with top_k at least the number of index records, index and store in
\* agreement and no filter, search_posts returns every stored post, nearest
\* first, and does not raise
C22_TopKCoversIndex ==
    (Built /\ IndexAgreesWithStore) =>
        \A q \in Queries, k \in TopKs :
            k >= Len(Docs) =>
                LET r == Results(q, k, NoLang)
                IN /\ ~SearchRaises(vector_store, TRUE)
                   /\ Len(r) = Len(Docs)
                   /\ ResultIds(r) = Keys(posts)
                   /\ \A i \in 1..(Len(r) - 1) : q[r[i].post_id] <= q[r[i + 1].post_id]

\* a found search over two posts where the post indexed second is the nearer
\* and comes first in the list of both
C22_Witness ==
    /\ last.op = "search"
    /\ last.status = "found"
    /\ IndexAgreesWithStore
    /\ Len(Docs) = Cardinality(Ids)
    /\ Keys(posts) = Ids
    /\ \E q \in Queries, k \in TopKs :
          /\ k >= Len(Docs)
          /\ q[Docs[2].post_id] < q[Docs[1].post_id]
          /\ Results(q, k, NoLang)[1].post_id = Docs[2].post_id
          /\ Len(Results(q, k, NoLang)) = Len(Docs)

\* a successful rebuild right after a successful rebuild of the same content
SecondBuild ==
    /\ last.rebuild = "built"
    /\ last'.rebuild = "built"
    /\ posts' = posts

AppendsOneRecord ==
    LET post == GetPost(posts', last'.post_id)
    IN /\ HasKey(posts', last'.post_id)
       /\ Docs' = Append(Docs, Document(post))
       /\ {p \in posts : p.id # post.id} = {p \in posts' : p.id # post.id}

\* C24: every add_post on a built index appends one record for the new post
\* and leaves the other records and the other posts unchanged
C24_AddPostFrame ==
    [][(last'.op = "add_post" /\ Built) => AppendsOneRecord]_vars

UniqueIds(ps) == \A a, b \in ps : a.id = b.id => a = b

\* an add_post whose id is already a key of self.posts
ReAdd == last'.op = "add_post" /\ HasKey(posts, last'.post_id)

ReAddKeepsOthers ==
    /\ Keys(posts') = Keys(posts)
    /\ Cardinality(posts') = Cardinality(posts)
    /\ \A p \in posts : p.id # last'.post_id => p \in posts'

\* C25: self.posts never holds two entries with one id, and an add_post with an
\* id already present keeps the keys and the other entries as they are
C25_OneEntryPerId ==
    /\ UniqueIds(posts)
    /\ [][UniqueIds(posts') /\ (ReAdd => ReAddKeepsOthers)]_vars

\* add_post has replaced the entry of a post loaded from a row in another
\* language, next to a second post
C25_Witness ==
    /\ last.op = "add_post"
    /\ DbHas(db, last.post_id)
    /\ DbRow(db, last.post_id).is_active
    /\ HasKey(posts, last.post_id)
    /\ GetPost(posts, last.post_id).language # DbRow(db, last.post_id).language
    /\ Keys(posts) = Ids

\* C26: a search, whether it returns results, returns an empty list or raises,
\* leaves self.posts and the index as they were
C26_SearchReadOnly ==
    [][last'.op = "search" => (posts' = posts /\ vector_store' = vector_store)]_vars

\* a search has returned an empty list over an index that still holds records
C26_Witness ==
    /\ last.op = "search"
    /\ last.status = "not_found"
    /\ Len(Docs) > 0
    /\ posts = {}

\* the post has neither a row nor an entry in self.posts
GoneIn(rows, ps, id) == ~DbHas(rows, id) /\ ~HasKey(ps, id)
Gone(id) == GoneIn(db, posts, id)

\* no search returns a result with this post id
NeverFound(id) ==
    \A q \in Queries, k \in TopKs, l \in LangFilters : id \notin ResultIds(Results(q, k, l))

\* C27: after delete_post(id) the post is gone, whether or not the rebuild
\* succeeded; while it is gone no search returns it; and it stops being gone
\* only by an add_post of that id
C27_DeletedNotFound ==
    /\ [](\A id \in Ids : Gone(id) => NeverFound(id))
    /\ [][/\ last'.op = "delete_post" => GoneIn(db', posts', last'.post_id)
          /\ \A id \in Ids : (Gone(id) /\ ~GoneIn(db', posts', id)) =>
                               (last'.op = "add_post" /\ last'.post_id = id)]_vars

\* a post was deleted, the rebuild failed and left its record in the index,
\* and a search that reaches that record still returns only the other post
C27_Witness ==
    /\ last.op = "delete_post"
    /\ last.rebuild = "failed"
    /\ Gone(last.post_id)
    /\ last.post_id \in IndexedIds(vector_store)
    /\ \E q \in Queries :
          LET r == Results(q, MaxTopK, NoLang)
          IN /\ \A id \in Ids : q[last.post_id] <= q[id]
             /\ Len(r) = 1
             /\ r[1].post_id # last.post_id

\* C28: no result list of search_posts holds the same post_id twice
C28_NoDuplicateIds ==
    \A q \in Queries, k \in TopKs, l \in LangFilters :
        LET r == Results(q, k, l)
        IN \A i, j \in 1..Len(r) : r[i].post_id = r[j].post_id => i = j

\* C29: without a language filter, when at least top_k posts of self.posts
\* have a record in the index, a search returns exactly top_k results, stale
\* records in the index or not
C29_ExactlyTopK ==
    Built => \A q \in Queries, k \in TopKs :
                Cardinality(LiveIndexedIds) >= k => Len(Results(q, k, NoLang)) = k

====
